---- MODULE Spec2Model ----
(***************************************************************************)
(* State-machine model of CongestionFinder.py: the main loop over near     *)
(* networks and far ASNs, save_congestion (naming lookup, 30-day window    *)
(* boundaries, one /asrt query per window, row writing, conditional save)  *)
(* and get_result (exit on any HTTP error).                                *)
(*                                                                         *)
(* Python strings are TLA+ strings, datetimes are records of a proleptic   *)
(* Gregorian ordinal and the seconds within the day, an xlwt sheet is the  *)
(* ordered log of its write(row, col, value) calls, and the file system is *)
(* the set of saved workbooks by file name.                                *)
(***************************************************************************)
EXTENDS Integers, Sequences, FiniteSets, TLC

(***************************************************************************)
(* Bounds of the model.                                                    *)
(***************************************************************************)
\* largest lookback length (the value of MONTHS) that is explored
MaxMonths == 2
\* largest number of assertions the remote service returns in one run
MaxEvents == 2
\* number of entries of the networks table that are used
NumNetworks == 2
\* number of entries of the initial asns table that are used
NumExtraAsns == 1
\* number of consecutive calendar years the link inputs are drawn from
NumLinkYears == 2

(***************************************************************************)
(* Python string helpers.                                                  *)
(***************************************************************************)
DigitChars == "0123456789"

\* the character of one decimal digit
DigitChar(d) == SubSeq(DigitChars, d + 1, d + 1)

\* the value of one decimal digit character
DigitVal(c) == CHOOSE d \in 0..9 : DigitChar(d) = c

\* int(s) for a string of decimal digits
RECURSIVE ParseInt(_)
ParseInt(s) ==
    IF Len(s) = 0 THEN 0
    ELSE 10 * ParseInt(SubSeq(s, 1, Len(s) - 1)) + DigitVal(SubSeq(s, Len(s), Len(s)))

\* str(n) for a non-negative integer
RECURSIVE PyStr(_)
PyStr(n) ==
    IF n < 10 THEN DigitChar(n)
    ELSE PyStr(n \div 10) \o DigitChar(n % 10)

\* a non-negative integer as a zero-padded decimal string of width w
RECURSIVE ZeroPad(_, _)
ZeroPad(n, w) ==
    IF w = 0 THEN ""
    ELSE ZeroPad(n \div 10, w - 1) \o DigitChar(n % 10)

(***************************************************************************)
(* datetime: calendar arithmetic on proleptic Gregorian ordinals.          *)
(***************************************************************************)
IsLeap(y) == (y % 4 = 0) /\ ((y % 100 # 0) \/ (y % 400 = 0))

DaysInMonth(y, m) ==
    IF m = 2 THEN (IF IsLeap(y) THEN 29 ELSE 28)
    ELSE IF m \in {4, 6, 9, 11} THEN 30 ELSE 31

\* the days of the year before the first day of month m
DaysBeforeMonth(y, m) ==
    <<0, 31, 59, 90, 120, 151, 181, 212, 243, 273, 304, 334>>[m]
        + (IF m > 2 /\ IsLeap(y) THEN 1 ELSE 0)

DaysBeforeYear(y) ==
    LET p == y - 1 IN p * 365 + (p \div 4) - (p \div 100) + (p \div 400)

\* date(y, m, d).toordinal()
Ymd2Ord(y, m, d) == DaysBeforeYear(y) + DaysBeforeMonth(y, m) + d

\* date.fromordinal(n) as <<year, month, day>>
Ord2Ymd(n) ==
    LET n0   == n - 1
        n400 == n0 \div 146097
        r400 == n0 % 146097
        n100 == r400 \div 36524
        r100 == r400 % 36524
        n4   == r100 \div 1461
        r4   == r100 % 1461
        n1   == r4 \div 365
        r1   == r4 % 365
        y    == n400 * 400 + 1 + n100 * 100 + n4 * 4 + n1
    IN  IF n1 = 4 \/ n100 = 4 THEN <<y - 1, 12, 31>>
        ELSE LET m == CHOOSE k \in 1..12 :
                          /\ DaysBeforeMonth(y, k) <= r1
                          /\ r1 < DaysBeforeMonth(y, k) + DaysInMonth(y, k)
             IN  <<y, m, r1 - DaysBeforeMonth(y, m) + 1>>

\* datetime - timedelta(days = k) and datetime + timedelta(days = k)
MinusDays(dt, k) == [dt EXCEPT !.ord = @ - k]
PlusDays(dt, k) == [dt EXCEPT !.ord = @ + k]

\* dt.strftime("%Y") + dt.strftime("%m") + dt.strftime("%d")
Strftime(dt) ==
    LET ymd == Ord2Ymd(dt.ord)
    IN  ZeroPad(ymd[1], 4) \o ZeroPad(ymd[2], 2) \o ZeroPad(ymd[3], 2)

\* datetime.strptime(s, '%Y-%m-%d') for a ten-character ISO date
Strptime(s) ==
    [ord  |-> Ymd2Ord(ParseInt(SubSeq(s, 1, 4)),
                      ParseInt(SubSeq(s, 6, 7)),
                      ParseInt(SubSeq(s, 9, 10))),
     secs |-> 0]

(***************************************************************************)
(* Configuration tables of __main__ (Python dicts keep insertion order).   *)
(***************************************************************************)
NetworksTable ==
    << <<"7018", "AT&T">>, <<"209", "CENTURYLINK">>, <<"20115", "CHARTER">>,
       <<"7922", "COMCAST">>, <<"22773", "COX">>, <<"6939", "HURRICANE">>,
       <<"3356", "LEVEL3">>, <<"6079", "RCS">>, <<"18214", "TELUS-INTERNATIONAL">>,
       <<"852", "TELUS-CANADA">>, <<"7843", "TIME-WARNER-CABLE">>,
       <<"16115", "VERIZON-ASRANK">>, <<"701", "VERIZON-MANIC">> >>

AsnsTable ==
    << <<"16509", "AMAZON-02">>, <<"40027", "NETFLIX">>, <<"20940", "AKAMAI">>,
       <<"8075", "MICROSOFT">>, <<"174", "CCOGENT">> >>

\* the networks dict, as its items in order
networks == SubSeq(NetworksTable, 1, NumNetworks)

\* the asns dict after every key of networks was added to it
asns == SubSeq(AsnsTable, 1, NumExtraAsns) \o networks

\* d.keys() and d[key] for a dict given as its items
Keys(d) == {d[k][1] : k \in 1..Len(d)}
Lookup(d, key) == d[CHOOSE k \in 1..Len(d) : d[k][1] = key][2]

(***************************************************************************)
(* URLs.                                                                   *)
(***************************************************************************)
BASE_URL == "https://api.manic.caida.org/v1/asrt"
VIS_BASE == "https://viz.manic.caida.org/d/cmCi50Umz/all-links-from-vp-network-to-neighbor-network?orgId=2"

\* "https://api.manic.caida.org/v1/asns/{}?verbose=true".format(asn)
MonitorUrl(asn) == "https://api.manic.caida.org/v1/asns/" \o asn \o "?verbose=true"

\* QueryUrl with the end of the window taken from the boundary of its start
QueryUrl_EndIsStart(near_asn, far_asn, tms, i) ==
    LET near_url  == "?near_org_asn=" \o near_asn
        far_url   == "&far_asn=" \o far_asn
        start_url == "&start=" \o Strftime(tms[i + 1])
        end_url   == "&end=" \o Strftime(tms[i + 1])
    IN  BASE_URL \o near_url \o far_url \o start_url \o end_url \o "&is_congested=true"

\* the /asrt query of the window times[i + 1] .. times[i + 2] (i counts from 0)
QueryUrl(near_asn, far_asn, tms, i) ==
    LET near_url  == "?near_org_asn=" \o near_asn
        far_url   == "&far_asn=" \o far_asn
        start_url == "&start=" \o Strftime(tms[i + 1])
        end_url   == "&end=" \o Strftime(tms[i + 2])
    IN  BASE_URL \o near_url \o far_url \o start_url \o end_url \o "&is_congested=true"

\* the day-granularity visualization URL of one assertion
DayVisQuery(time, near_asn, far_asn) ==
    LET day_granularity == Strptime(SubSeq(time, 1, 10))
        day_from_url    == "&from=" \o Strftime(day_granularity)
        day_to_url      == "&to=" \o Strftime(PlusDays(day_granularity, 2))
    IN  VIS_BASE \o day_from_url \o day_to_url
            \o "&var-network=" \o near_asn \o "&var-asn=" \o far_asn

\* MonthVisQuery with the 30 days counted from the day of the assertion
MonthVisQuery_ToFromDay(time, near_asn, far_asn) ==
    LET month_granularity == MinusDays(Strptime(SubSeq(time, 1, 10)), 15)
        month_from_url    == "&from=" \o Strftime(month_granularity)
        month_to_url      == "&to=" \o Strftime(PlusDays(Strptime(SubSeq(time, 1, 10)), 30))
    IN  VIS_BASE \o month_from_url \o month_to_url
            \o "&var-network=" \o near_asn \o "&var-asn=" \o far_asn

\* the month-granularity visualization URL of one assertion
MonthVisQuery(time, near_asn, far_asn) ==
    LET month_granularity == MinusDays(Strptime(SubSeq(time, 1, 10)), 15)
        month_from_url    == "&from=" \o Strftime(month_granularity)
        month_to_url      == "&to=" \o Strftime(PlusDays(month_granularity, 30))
    IN  VIS_BASE \o month_from_url \o month_to_url
            \o "&var-network=" \o near_asn \o "&var-asn=" \o far_asn

(***************************************************************************)
(* get_result: any HTTP error ends the process.                            *)
(***************************************************************************)
\* the HTTP status codes the remote service answers with
Statuses == {200, 400, 404, 500}

\* get_result that falls through to its last line on a 500
GetResultReturns_Not500(status) == status \in {200, 500}

\* TRUE iff get_result returns the parsed body, FALSE iff it calls sys.exit()
GetResultReturns(status) == status = 200

(***************************************************************************)
(* The remote service.                                                     *)
(***************************************************************************)
\* the names the /asns method may return for an ASN
RemoteNames(asn) == {"AS" \o asn, "ORG-" \o asn}

EventA == [time |-> "2019-04-10T00:00:00", congestion |-> 1]
EventB == [time |-> "2019-12-31T23:45:00", congestion |-> 25]

\* the bodies the /asrt method may return: groups of assertions
Responses ==
    { [data |-> <<>>],
      [data |-> << [data |-> <<>>] >>],
      [data |-> << [data |-> <<EventA>>] >>],
      [data |-> << [data |-> <<EventA, EventB>>] >>],
      [data |-> << [data |-> <<>>], [data |-> <<EventB>>], [data |-> <<EventA>>] >>] }

\* the assertions of a body, in the order received
RECURSIVE Flatten(_)
Flatten(groups) ==
    IF groups = <<>> THEN <<>> ELSE Head(groups).data \o Flatten(Tail(groups))

\* the values datetime.datetime.now() may return
Anchors ==
    { [ord |-> Ymd2Ord(2019, 5, 19), secs |-> 45296],
      [ord |-> Ymd2Ord(2020, 3, 15), secs |-> 0] }

(***************************************************************************)
(* save_congestion: pure parts.                                            *)
(***************************************************************************)
\* BuildTimes with each new boundary added at the end of the list
RECURSIVE BuildTimes_Append(_, _)
BuildTimes_Append(anchor, months) ==
    IF months = 0 THEN <<anchor>>
    ELSE LET tms == BuildTimes_Append(anchor, months - 1)
         IN  tms \o <<MinusDays(tms[1], 30)>>

\* the list of window boundaries, each 30 days before the next
RECURSIVE BuildTimes(_, _)
BuildTimes(anchor, months) ==
    IF months = 0 THEN <<anchor>>
    ELSE LET tms == BuildTimes(anchor, months - 1)
         IN  <<MinusDays(tms[1], 30)>> \o tms

\* the sheet name: the asns table overrides the name the remote service gave
SheetName(far_asn, remote_name) ==
    IF far_asn \in Keys(asns) THEN Lookup(asns, far_asn) ELSE remote_name

\* the header cells of a new sheet
HeaderCells ==
    << <<0, 0, "Time">>, <<0, 1, "Congestion">>,
       <<0, 2, "Visualization - Day Granularity">>,
       <<0, 3, "Visualization - Month Granularity">> >>

\* RowOf without the row of the header
RowOf_ZeroBased(xv) == xv

\* the sheet row an assertion is written to when x_val rows were written before
RowOf(xv) == xv + 1

\* the four cells written for one assertion
RowCells(xv, a, near_asn, far_asn) ==
    << <<RowOf(xv), 0, a.time>>,
       <<RowOf(xv), 1, PyStr(a.congestion)>>,
       <<RowOf(xv), 2, DayVisQuery(a.time, near_asn, far_asn)>>,
       <<RowOf(xv), 3, MonthVisQuery(a.time, near_asn, far_asn)>> >>

\* the inner loop over the assertions of one group; st = [cells, x_val, old_x]
RECURSIVE WriteAssertions(_, _, _, _)
WriteAssertions(st, as, near_asn, far_asn) ==
    IF as = <<>> THEN st
    ELSE WriteAssertions(
             [st EXCEPT !.cells = @ \o RowCells(st.x_val, Head(as), near_asn, far_asn),
                        !.x_val = @ + 1],
             Tail(as), near_asn, far_asn)

\* WriteGroups that leaves the loop at the first empty group
RECURSIVE WriteGroups_StopAtEmpty(_, _, _, _)
WriteGroups_StopAtEmpty(st, groups, near_asn, far_asn) ==
    IF groups = <<>> THEN st
    ELSE LET s1 == [st EXCEPT !.old_x = st.x_val]
         IN  IF Head(groups).data # <<>>
             THEN WriteGroups_StopAtEmpty(
                      WriteAssertions(s1, Head(groups).data, near_asn, far_asn),
                      Tail(groups), near_asn, far_asn)
             ELSE s1

\* the outer loop over the groups of one response
RECURSIVE WriteGroups(_, _, _, _)
WriteGroups(st, groups, near_asn, far_asn) ==
    IF groups = <<>> THEN st
    ELSE LET s1 == [st EXCEPT !.old_x = st.x_val]
             s2 == IF Head(groups).data # <<>>
                   THEN WriteAssertions(s1, Head(groups).data, near_asn, far_asn)
                   ELSE s1
         IN  WriteGroups(s2, Tail(groups), near_asn, far_asn)

\* ShouldSave that asks for more than one row
ShouldSave_MoreThanOne(xv) == xv > 1

\* the file is saved only if the pair wrote at least one row
ShouldSave(xv) == xv # 0

(***************************************************************************)
(* State.                                                                  *)
(***************************************************************************)
VARIABLES
    MONTHS,       \* the lookback length
    pc,           \* position of the program
    netIdx,       \* index in networks of the network of the outer loop
    asnIdx,       \* index in asns of the ASN of the inner loop
    filename,     \* file name of the report of the near network
    wb,           \* the workbook: its sheets in the order they were added
    now,          \* what datetime.datetime.now() returned for the current pair
    times,        \* window boundaries of the current pair
    i,            \* index of the current window (from 0)
    x_val,        \* rows written to the current sheet
    old_x,        \* x_val when the current group began
    json_result,  \* the response that is being written
    files,        \* the files on disk: the set of saved workbooks
    calls,        \* remote calls issued for the current pair (or network lookup)
    received      \* every assertion the remote service has returned in the run

vars == <<MONTHS, pc, netIdx, asnIdx, filename, wb, now, times, i,
          x_val, old_x, json_result, files, calls, received>>

network == networks[netIdx][1]
far_asn == asns[asnIdx][1]
NoResponse == [data |-> <<>>]
NoTime == [ord |-> 1, secs |-> 0]

Init ==
    /\ MONTHS \in 0..MaxMonths
    /\ pc = "main"
    /\ netIdx = 1
    /\ asnIdx = 1
    /\ filename = ""
    /\ wb = <<>>
    /\ now = NoTime
    /\ times = <<>>
    /\ i = 0
    /\ x_val = 0
    /\ old_x = 0
    /\ json_result = NoResponse
    /\ files = {}
    /\ calls = <<>>
    /\ received = <<>>

(***************************************************************************)
(* Actions.                                                                *)
(***************************************************************************)
\* __main__, outer loop: name lookup of the network (the name is only
\* printed), file name, new workbook
NearLookup ==
    /\ pc = "main"
    /\ netIdx <= Len(networks)
    /\ \E status \in Statuses :
          /\ calls' = <<[url |-> MonitorUrl(network), status |-> status]>>
          /\ IF GetResultReturns(status)
             THEN /\ filename' = Lookup(networks, network) \o ".xls"
                  /\ wb' = <<>>
                  /\ asnIdx' = 1
                  /\ pc' = "pair"
             ELSE /\ pc' = "exit"
                  /\ UNCHANGED <<filename, wb, asnIdx>>
    /\ UNCHANGED <<MONTHS, netIdx, now, times, i, x_val, old_x, json_result, files, received>>

\* save_congestion up to the window loop: name lookup of the far ASN,
\* window boundaries, new sheet with its header
PairStart ==
    /\ pc = "pair"
    /\ asnIdx <= Len(asns)
    /\ \E status \in Statuses :
          /\ calls' = <<[url |-> MonitorUrl(far_asn), status |-> status]>>
          /\ IF GetResultReturns(status)
             THEN \E name \in RemoteNames(far_asn), anchor \in Anchors :
                  /\ now' = anchor
                  /\ times' = BuildTimes(anchor, MONTHS)
                  /\ wb' = Append(wb, [name  |-> SheetName(far_asn, name),
                                      cells |-> HeaderCells])
                  /\ x_val' = 0
                  /\ old_x' = 0
                  /\ i' = 0
                  /\ pc' = "window"
             ELSE /\ pc' = "exit"
                  /\ UNCHANGED <<now, times, wb, x_val, old_x, i>>
    /\ UNCHANGED <<MONTHS, netIdx, asnIdx, filename, json_result, files, received>>

\* one /asrt query of the window loop
QueryWindow ==
    /\ pc = "window"
    /\ i < Len(times) - 1
    /\ \E status \in Statuses :
          /\ calls' = Append(calls, [url    |-> QueryUrl(network, far_asn, times, i),
                                     status |-> status])
          /\ IF GetResultReturns(status)
             THEN \E body \in Responses :
                  /\ Len(received) + Len(Flatten(body.data)) <= MaxEvents
                  /\ json_result' = body
                  /\ received' = received \o
                        [k \in 1..Len(Flatten(body.data)) |->
                            [near |-> network, far |-> far_asn,
                             time |-> Flatten(body.data)[k].time,
                             congestion |-> Flatten(body.data)[k].congestion]]
                  /\ pc' = "rows"
             ELSE /\ pc' = "exit"
                  /\ UNCHANGED <<json_result, received>>
    /\ UNCHANGED <<MONTHS, netIdx, asnIdx, filename, wb, now, times, i,
                   x_val, old_x, files>>

\* the rows of one response are written to the sheet of the pair
WriteRows ==
    /\ pc = "rows"
    /\ LET sheet1 == wb[Len(wb)]
           st == WriteGroups([cells |-> sheet1.cells, x_val |-> x_val, old_x |-> old_x],
                             json_result.data, network, far_asn)
       IN  /\ wb' = [wb EXCEPT ![Len(wb)].cells = st.cells]
           /\ x_val' = st.x_val
           /\ old_x' = st.old_x
    /\ i' = i + 1
    /\ pc' = "window"
    /\ UNCHANGED <<MONTHS, netIdx, asnIdx, filename, now, times,
                   json_result, files, calls, received>>

\* Save that leaves a file alone that is already there
Save_KeepExisting(fs, name, book) ==
    IF \E f \in fs : f.filename = name THEN fs
    ELSE fs \cup {[filename |-> name, wb |-> book]}

\* wb.save(filename): the file of that name is replaced by the workbook
Save(fs, name, book) ==
    {f \in fs : f.filename # name} \cup {[filename |-> name, wb |-> book]}

\* save_congestion after the window loop: save if a row was written, return
FinishPair ==
    /\ pc = "window"
    /\ i >= Len(times) - 1
    /\ files' = IF ShouldSave(x_val) THEN Save(files, filename, wb) ELSE files
    /\ asnIdx' = asnIdx + 1
    /\ now' = NoTime
    /\ times' = <<>>
    /\ i' = 0
    /\ x_val' = 0
    /\ old_x' = 0
    /\ json_result' = NoResponse
    /\ pc' = "pair"
    /\ UNCHANGED <<MONTHS, netIdx, filename, wb, calls, received>>

\* __main__, end of the inner loop: on to the next network
NetworkEnd ==
    /\ pc = "pair"
    /\ asnIdx > Len(asns)
    /\ netIdx' = netIdx + 1
    /\ asnIdx' = 1
    /\ pc' = "main"
    /\ UNCHANGED <<MONTHS, filename, wb, now, times, i, x_val, old_x,
                   json_result, files, calls, received>>

\* __main__, end of the outer loop: the program ends
MainEnd ==
    /\ pc = "main"
    /\ netIdx > Len(networks)
    /\ pc' = "done"
    /\ UNCHANGED <<MONTHS, netIdx, asnIdx, filename, wb, now, times, i,
                   x_val, old_x, json_result, files, calls, received>>

Next ==
    \/ NearLookup
    \/ PairStart
    \/ QueryWindow
    \/ WriteRows
    \/ FinishPair
    \/ NetworkEnd
    \/ MainEnd

Spec == Init /\ [][Next]_vars

(***************************************************************************)
(* The link derivation on its own: the program is writing the response of  *)
(* the second of two windows of the pair ("7018", "16509"), which holds    *)
(* one assertion whose time is any instant of the years of LinkYears.      *)
(***************************************************************************)
LinkYears == (2019 .. (2019 + NumLinkYears - 1)) \cup {2000, 2100}

LinkTimes ==
    { ZeroPad(y, 4) \o "-" \o ZeroPad(md[1], 2) \o "-" \o ZeroPad(md[2], 2) \o tod :
        y \in LinkYears,
        md \in {q \in (1..12) \X (1..31) : \E yy \in LinkYears : q[2] <= DaysInMonth(yy, q[1])},
        tod \in {"T00:00:00", "T23:59:59"} }

ValidLinkTime(t) ==
    ParseInt(SubSeq(t, 9, 10)) <= DaysInMonth(ParseInt(SubSeq(t, 1, 4)), ParseInt(SubSeq(t, 6, 7)))

InitLinks ==
    /\ MONTHS = 2
    /\ pc = "rows"
    /\ netIdx = 1
    /\ asnIdx = 1
    /\ filename = Lookup(networks, network) \o ".xls"
    /\ wb = <<[name |-> SheetName(far_asn, "AS" \o far_asn), cells |-> HeaderCells]>>
    /\ now = [ord |-> Ymd2Ord(2019, 5, 19), secs |-> 45296]
    /\ times = BuildTimes(now, 2)
    /\ i = 1
    /\ x_val = 0
    /\ old_x = 0
    /\ \E t \in LinkTimes :
          /\ ValidLinkTime(t)
          /\ json_result = [data |-> << [data |-> <<[time |-> t, congestion |-> 1]>>] >>]
          /\ received = <<[near |-> network, far |-> far_asn, time |-> t, congestion |-> 1]>>
    /\ files = {}
    /\ calls = <<[url |-> MonitorUrl(far_asn), status |-> 200],
                 [url |-> QueryUrl(network, far_asn, times, 0), status |-> 200],
                 [url |-> QueryUrl(network, far_asn, times, 1), status |-> 200]>>

NextLinks == WriteRows

SpecLinks == InitLinks /\ [][NextLinks]_vars

(***************************************************************************)
(* Reading the state.                                                      *)
(***************************************************************************)
\* the calendar, day by day, on <<year, month, day>>
NextDay(ymd) ==
    IF ymd[3] < DaysInMonth(ymd[1], ymd[2]) THEN <<ymd[1], ymd[2], ymd[3] + 1>>
    ELSE IF ymd[2] < 12 THEN <<ymd[1], ymd[2] + 1, 1>>
    ELSE <<ymd[1] + 1, 1, 1>>

PrevDay(ymd) ==
    IF ymd[3] > 1 THEN <<ymd[1], ymd[2], ymd[3] - 1>>
    ELSE IF ymd[2] > 1 THEN <<ymd[1], ymd[2] - 1, DaysInMonth(ymd[1], ymd[2] - 1)>>
    ELSE <<ymd[1] - 1, 12, 31>>

RECURSIVE DaysLater(_, _)
DaysLater(ymd, k) ==
    IF k = 0 THEN ymd
    ELSE LET n == NextDay(ymd) IN IF n[3] >= 1 THEN DaysLater(n, k - 1) ELSE n

RECURSIVE DaysEarlier(_, _)
DaysEarlier(ymd, k) ==
    IF k = 0 THEN ymd
    ELSE LET p == PrevDay(ymd) IN IF p[3] >= 1 THEN DaysEarlier(p, k - 1) ELSE p

Compact(ymd) == ZeroPad(ymd[1], 4) \o ZeroPad(ymd[2], 2) \o ZeroPad(ymd[3], 2)

\* the calendar day of a timestamp "YYYY-MM-DD..."
DayOf(t) == <<ParseInt(SubSeq(t, 1, 4)), ParseInt(SubSeq(t, 6, 7)), ParseInt(SubSeq(t, 9, 10))>>

VisLink(from, to, near, far) ==
    VIS_BASE \o "&from=" \o from \o "&to=" \o to \o "&var-network=" \o near \o "&var-asn=" \o far

\* the number of data rows of a sheet, and its k-th data row as written
NumRows(sheet) == (Len(sheet.cells) - Len(HeaderCells)) \div 4
DataRow(sheet, k) ==
    [time       |-> sheet.cells[4 * k + 1][3],
     congestion |-> sheet.cells[4 * k + 2][3],
     day_link   |-> sheet.cells[4 * k + 3][3],
     month_link |-> sheet.cells[4 * k + 4][3]]
DataRows(sheet) == [k \in 1..NumRows(sheet) |-> DataRow(sheet, k)]

\* the assertions received for one pair, in the order received
ReceivedOf(near, far) == SelectSeq(received, LAMBDA r : r.near = near /\ r.far = far)
ReceivedOfNear(near) == SelectSeq(received, LAMBDA r : r.near = near)

\* the assertions of the response that is still to be written
Pending == IF pc = "rows" THEN Len(Flatten(json_result.data)) ELSE 0

InPair == pc \in {"window", "rows"}
sheet1 == wb[Len(wb)]

\* the /asrt queries among the calls of the current pair
AsrtCalls == Tail(calls)

FileOf(name) == {f \in files : f.filename = name}

RECURSIVE SumRows(_)
SumRows(book) == IF book = <<>> THEN 0 ELSE NumRows(Head(book)) + SumRows(Tail(book))

(***************************************************************************)
(* C1: the window boundaries of a pair are MONTHS + 1 instants that form   *)
(* MONTHS windows, each exactly 30 days wide, each beginning where the     *)
(* one before ends, oldest first, the last one ending at the anchor.       *)
(***************************************************************************)
Windows == [k \in 1..(Len(times) - 1) |-> [start |-> times[k], end |-> times[k + 1]]]

C1_Windows ==
    InPair =>
        /\ Len(times) = MONTHS + 1
        /\ Len(Windows) = MONTHS
        /\ \A k \in 1..Len(Windows) :
              /\ Windows[k].end.ord - Windows[k].start.ord = 30
              /\ Windows[k].end.secs = Windows[k].start.secs
              /\ k < Len(Windows) => Windows[k].end = Windows[k + 1].start
              /\ Windows[k].end = MinusDays(now, 30 * (MONTHS - k))
        /\ times[Len(times)] = now

C1_Witness ==
    /\ pc = "window"
    /\ MONTHS = 2
    /\ i = 2
    /\ Len(Windows) = 2
    /\ Strftime(Windows[1].start) = "20200115"
    /\ Strftime(Windows[2].end) = "20200315"

(***************************************************************************)
(* C2: the data rows of the sheet of a pair are the assertions received    *)
(* for the pair, in the order received (windows, then groups, then         *)
(* assertions); empty groups and empty responses add no row.               *)
(***************************************************************************)
C2_RowsAreAssertions ==
    InPair =>
        LET rcv == ReceivedOf(network, far_asn)
            n   == Len(rcv) - Pending
        IN  /\ NumRows(sheet1) = n
            /\ Len(sheet1.cells) = Len(HeaderCells) + 4 * n
            /\ \A k \in 1..n :
                  /\ DataRow(sheet1, k).time = rcv[k].time
                  /\ DataRow(sheet1, k).congestion = PyStr(rcv[k].congestion)

C2_Witness ==
    /\ pc = "window"
    /\ i = 2
    /\ json_result = [data |-> << [data |-> <<>>], [data |-> <<EventB>>], [data |-> <<EventA>>] >>]
    /\ NumRows(sheet1) = 2
    /\ DataRow(sheet1, 1).time = EventB.time
    /\ DataRow(sheet1, 2).time = EventA.time

(***************************************************************************)
(* C3: with D the calendar day of the time of a row, its day link runs     *)
(* from D to D + 2 days and its month link from D - 15 days to D + 15      *)
(* days, on the calendar; 2019-04-10 gives 20190410, 20190412, 20190326    *)
(* and 20190425.                                                           *)
(***************************************************************************)
C3_Links ==
    InPair => \A k \in 1..NumRows(sheet1) :
        LET row == DataRow(sheet1, k)
            D   == DayOf(row.time)
        IN  /\ row.day_link =
                  VisLink(SubSeq(row.time, 1, 4) \o SubSeq(row.time, 6, 7) \o SubSeq(row.time, 9, 10),
                          Compact(DaysLater(D, 2)), network, far_asn)
            /\ row.month_link =
                  VisLink(Compact(DaysEarlier(D, 15)), Compact(DaysLater(D, 15)), network, far_asn)
            /\ SubSeq(row.time, 1, 10) = "2019-04-10" =>
                  /\ row.day_link = VisLink("20190410", "20190412", network, far_asn)
                  /\ row.month_link = VisLink("20190326", "20190425", network, far_asn)

C3_Witness ==
    /\ pc = "window"
    /\ i = 2
    /\ network = "7018"
    /\ far_asn = "16509"
    /\ NumRows(sheet1) = 1
    /\ DataRow(sheet1, 1).time = "2019-04-10T00:00:00"
    /\ DataRow(sheet1, 1).month_link = VisLink("20190326", "20190425", "7018", "16509")

(***************************************************************************)
(* C9: the k-th assertion of a pair is written to row k: the data cells    *)
(* fill rows 1..n in order, no cell is written twice, and row 0 holds the  *)
(* header only.                                                            *)
(***************************************************************************)
C9_RowIndex ==
    InPair =>
        LET cells == sheet1.cells
        IN  /\ SubSeq(cells, 1, Len(HeaderCells)) = HeaderCells
            /\ \A j \in (Len(HeaderCells) + 1)..Len(cells) :
                  /\ cells[j][1] = ((j - Len(HeaderCells) - 1) \div 4) + 1
                  /\ cells[j][2] = (j - Len(HeaderCells) - 1) % 4
            /\ \A j, l \in 1..Len(cells) :
                  (cells[j][1] = cells[l][1] /\ cells[j][2] = cells[l][2]) => j = l
            /\ x_val = NumRows(sheet1)
            /\ old_x <= x_val

C9_Witness ==
    /\ pc = "window"
    /\ i = 2
    /\ x_val = 2
    /\ json_result = [data |-> << [data |-> <<EventA>>] >>]
    /\ sheet1.cells[Len(sheet1.cells)][1] = 2

(***************************************************************************)
(* C4: when a near network has been processed without a remote error, its  *)
(* report file exists iff its sheets hold at least one data row.           *)
(***************************************************************************)
FileNameOf(n) == networks[n][2] \o ".xls"

C4_FileIffRows ==
    /\ (pc = "pair" /\ asnIdx > Len(asns)) =>
           ((FileOf(filename) # {}) <=> (SumRows(wb) > 0))
    /\ \A n \in 1..Len(networks) : n < netIdx =>
           ((FileOf(FileNameOf(n)) # {}) <=> (Len(ReceivedOfNear(networks[n][1])) > 0))

C4_Witness ==
    /\ pc = "pair"
    /\ asnIdx > Len(asns)
    /\ netIdx = 2
    /\ SumRows(wb) = 0
    /\ FileOf(filename) = {}
    /\ FileOf(FileNameOf(1)) # {}

(***************************************************************************)
(* C5: every sheet of a written report file has at least one data row (a   *)
(* pair without events leaves no sheet in the report).                     *)
(***************************************************************************)
C5_NoEmptySheetInFile ==
    \A f \in files : \A s \in 1..Len(f.wb) : NumRows(f.wb[s]) >= 1

(***************************************************************************)
(* C6, as claimed: after a 500 to the query of a window no file exists for *)
(* the near network in progress nor for any pending one.                   *)
(***************************************************************************)
WindowQueryFailed == Len(calls) > 1 /\ calls[Len(calls)].status = 500

C6_NoFileOnAbort ==
    (pc = "exit" /\ WindowQueryFailed) =>
        \A n \in netIdx..Len(networks) : FileOf(FileNameOf(n)) = {}

(***************************************************************************)
(* C6, amended: a 500 to the query of a window ends the run at once; no    *)
(* file exists for a pending network and nothing of the failing pair is    *)
(* on disk, but the file of the network in progress exists iff an earlier  *)
(* pair of that network found an event, and holds the rows of those pairs. *)
(***************************************************************************)
EarlierPairs == SelectSeq(received, LAMBDA r : r.near = network /\ r.far # far_asn)

C6_AbortKeepsEarlierSaves ==
    WindowQueryFailed =>
        /\ pc = "exit"
        /\ ~ ENABLED Next
        /\ \A n \in (netIdx + 1)..Len(networks) : FileOf(FileNameOf(n)) = {}
        /\ (FileOf(filename) # {}) <=> (Len(EarlierPairs) > 0)
        /\ \A f \in FileOf(filename) :
              /\ Len(f.wb) < asnIdx
              /\ SumRows(f.wb) = Len(EarlierPairs)

C6_Witness ==
    /\ pc = "exit"
    /\ WindowQueryFailed
    /\ netIdx = 1
    /\ asnIdx = 2
    /\ i = 1
    /\ x_val = 1
    /\ \E f \in FileOf(filename) : Len(f.wb) = 1 /\ SumRows(f.wb) = 1

(***************************************************************************)
(* C7: resolving the name of a far ASN that is a key of the asns table     *)
(* yields the value of the table and issues no remote naming call (the     *)
(* remote lookup is for ASNs absent from the table only).                  *)
(***************************************************************************)
C7_NoRemoteCallForTableAsn ==
    (InPair /\ far_asn \in Keys(asns)) =>
        /\ sheet1.name = Lookup(asns, far_asn)
        /\ \A k \in 1..Len(calls) : calls[k].url # MonitorUrl(far_asn)

(***************************************************************************)
(* C8: without an error a pair issues one /asrt query per window, oldest   *)
(* window first, the k-th carrying the start and the end of window k, each *)
(* only when every row received before is written: MONTHS queries in all,  *)
(* and none, with no row and no save, when MONTHS is 0.                    *)
(***************************************************************************)
ExpectedQuery(k) ==
    BASE_URL \o "?near_org_asn=" \o network \o "&far_asn=" \o far_asn
        \o "&start=" \o Compact(Ord2Ymd(now.ord - 30 * (MONTHS - k + 1)))
        \o "&end=" \o Compact(Ord2Ymd(now.ord - 30 * (MONTHS - k)))
        \o "&is_congested=true"

C8_QueryPerWindow ==
    InPair =>
        /\ Len(AsrtCalls) = i + (IF pc = "rows" THEN 1 ELSE 0)
        /\ Len(AsrtCalls) <= MONTHS
        /\ \A k \in 1..Len(AsrtCalls) :
              AsrtCalls[k] = [url |-> ExpectedQuery(k), status |-> 200]
        /\ pc = "window" => x_val = Len(ReceivedOf(network, far_asn))
        /\ (pc = "window" /\ i >= Len(times) - 1) => Len(AsrtCalls) = MONTHS
        /\ MONTHS = 0 =>
              /\ AsrtCalls = <<>>
              /\ pc = "window"
              /\ x_val = 0
              /\ received = <<>>
              /\ files = {}

C8_Witness ==
    /\ pc = "window"
    /\ MONTHS = 2
    /\ i = 2
    /\ x_val = 2
    /\ Len(calls) = 3
    /\ calls[2].url = "https://api.manic.caida.org/v1/asrt?near_org_asn=7018&far_asn=16509&start=20200115&end=20200214&is_congested=true"
    /\ calls[3].url = "https://api.manic.caida.org/v1/asrt?near_org_asn=7018&far_asn=16509&start=20200214&end=20200315&is_congested=true"

(***************************************************************************)
(* C10: between two pairs, a report file of the current near network, if   *)
(* there is one, holds every row written so far for that network.          *)
(***************************************************************************)
C10_FileHasAllRows ==
    pc = "pair" =>
        \A f \in FileOf(filename) :
            /\ SumRows(f.wb) = SumRows(wb)
            /\ SumRows(f.wb) = Len(ReceivedOfNear(network))
            /\ \A s \in 1..Len(wb) :
                  NumRows(wb[s]) > 0 => (s <= Len(f.wb) /\ f.wb[s] = wb[s])

C10_Witness ==
    /\ pc = "pair"
    /\ asnIdx = 3
    /\ Len(wb) = 2
    /\ NumRows(wb[1]) = 1
    /\ NumRows(wb[2]) = 1
    /\ \E f \in FileOf(filename) : f.wb = wb

====
